---- MODULE Spec2Model ----
(***************************************************************************)
(* Model of skills/python-clean-code/scripts/init_project.py.              *)
(*                                                                         *)
(* create_project(name, output_dir) is a straight-line sequence of         *)
(* filesystem operations: eight mkdir(parents=True, exist_ok=True) calls,  *)
(* each followed by a conditional write of a package marker, then nine     *)
(* unconditional write_text calls, then a printed summary.  The model      *)
(* runs the sequence one filesystem operation per step, over a filesystem  *)
(* that maps every existing path to a directory or a file with content.    *)
(*                                                                         *)
(* Text is a sequence of one-character strings wherever the code looks     *)
(* inside it (the name, the path segments, str(directory)); the fixed      *)
(* lines of the templates are sequences of tokens, one token per line.     *)
(* A name is one path segment: it holds no "/" and is neither "." nor      *)
(* "..".                                                                    *)
(***************************************************************************)
EXTENDS Naturals, Sequences, FiniteSets, TLC

VARIABLES
    name,        \* argument of create_project
    output_dir,  \* argument of create_project, an absolute path
    fs,          \* the filesystem: existing path -> entry
    pc,          \* position of create_project: [at, i]
    call,        \* 1 in the first invocation, 2 in the one that follows it
    err,         \* the OSError that ended the invocation, "OK" if none
    faulted,     \* TRUE when that error was an I/O fault (EIO), not a path error
    stdout,      \* what the invocation printed
    fs0,         \* history: the filesystem when the current invocation began
    fsFirst,     \* history: the filesystem when the first invocation returned
    ensured,     \* history: directories a mkdir step of this invocation left existing
    made         \* history: directories a mkdir step of this invocation created

vars == <<name, output_dir, fs, pc, call, err, faulted, stdout, fs0, fsFirst, ensured, made>>

---------------------------------------------------------------------------
(* Bounds of the model *)

MaxNameLen == 2

Alphabet == {"a", "1", "-", "+"}

Names == UNION {[1..n -> Alphabet] : n \in 1..MaxNameLen}

---------------------------------------------------------------------------
(* Text *)

Contains(s, sub) ==
    \E i \in 1..(Len(s) + 1) :
        /\ i + Len(sub) - 1 <= Len(s)
        /\ SubSeq(s, i, i + Len(sub) - 1) = sub

RECURSIVE Flatten(_)
Flatten(ss) == IF ss = <<>> THEN <<>> ELSE Head(ss) \o Flatten(Tail(ss))

\* Variant: str.replace(old, new, 1), only the first occurrence is replaced.
Replace_First(s, old, new) ==
    IF \E i \in 1..Len(s) : s[i] = old
    THEN LET k == CHOOSE i \in 1..Len(s) : s[i] = old /\ \A j \in 1..(i - 1) : s[j] # old
         IN  [i \in 1..Len(s) |-> IF i = k THEN new ELSE s[i]]
    ELSE s

\* str.replace(old, new) for a one-character old: every occurrence is replaced.
RECURSIVE Replace(_, _, _)
Replace(s, old, new) ==
    IF s = <<>> THEN <<>>
    ELSE <<IF Head(s) = old THEN new ELSE Head(s)>> \o Replace(Tail(s), old, new)

\* str.format(key=value): the placeholder token is replaced by the value's text.
RECURSIVE Format(_, _, _)
Format(template, key, value) ==
    IF template = <<>> THEN <<>>
    ELSE (IF Head(template) = key THEN value ELSE <<Head(template)>>)
         \o Format(Tail(template), key, value)

---------------------------------------------------------------------------
(* Templates *)

PYPROJECT_TEMPLATE ==
    << "[project]\n", "name = \"", "{name}", "\"", "\n",
       "version = \"0.1.0\"\n", "description = \"\"\n",
       "requires-python = \">=3.11\"\n", "dependencies = []\n", "\n",
       "[project.optional-dependencies]\n", "dev = [\"pytest\", \"ruff\", \"mypy\"]\n", "\n",
       "[tool.ruff]\n", "line-length = 100\n", "target-version = \"py311\"\n", "\n",
       "[tool.ruff.lint]\n", "select = [\"E\", \"F\", \"I\", \"UP\", \"B\", \"SIM\"]\n", "\n",
       "[tool.mypy]\n", "strict = true\n", "python_version = \"3.11\"\n", "\n",
       "[tool.pytest.ini_options]\n", "testpaths = [\"tests\"]\n", "pythonpath = [\"src\"]\n" >>

MAKEFILE_TEMPLATE ==
    << ".PHONY: install test lint format typecheck all\n", "\n",
       "install:\n", "\tuv sync\n", "\n",
       "test:\n", "\tuv run pytest\n", "\n",
       "lint:\n", "\tuv run ruff check src tests\n", "\n",
       "format:\n", "\tuv run ruff format src tests\n", "\n",
       "typecheck:\n", "\tuv run mypy src\n", "\n",
       "all: format lint typecheck test\n" >>

GITIGNORE_TEMPLATE ==
    << "__pycache__/\n", "*.py[cod]\n", "*$py.class\n", ".venv/\n", "venv/\n", ".env\n",
       "*.egg-info/\n", "dist/\n", "build/\n", ".mypy_cache/\n", ".pytest_cache/\n",
       ".ruff_cache/\n" >>

BASE_PY_TEMPLATE ==
    << "\"\"\"Abstract base classes for dependency injection.\"\"\"\n", "\n",
       "from abc import ABC, abstractmethod\n", "from typing import TypeVar\n", "\n",
       "T = TypeVar(\"T\")\n", "\n", "\n",
       "class Repository(ABC):\n", "    \"\"\"Base repository interface.\"\"\"\n", "\n",
       "    @abstractmethod\n", "    def save(self, entity: T) -> None:\n",
       "        \"\"\"Persist an entity.\"\"\"\n", "        ...\n", "\n",
       "    @abstractmethod\n", "    def find_by_id(self, entity_id: str) -> T | None:\n",
       "        \"\"\"Retrieve an entity by ID.\"\"\"\n", "        ...\n" >>

CONFIG_PY_TEMPLATE ==
    << "\"\"\"Application configuration.\"\"\"\n", "\n",
       "from dataclasses import dataclass, field\n", "from pathlib import Path\n", "\n", "\n",
       "@dataclass\n", "class Config:\n", "    \"\"\"Main application configuration.\"\"\"\n", "\n",
       "    debug: bool = False\n", "    log_level: str = \"INFO\"\n",
       "    data_dir: Path = field(default_factory=lambda: Path(\"data\"))\n" >>

INIT_TEMPLATE ==
    << "\"\"\"", "{description}", "\"\"\"", "\n", "\n", "__version__ = \"0.1.0\"\n" >>

\* The text written to the marker of a listed directory.
PACKAGE_MARKER == << "\"\"\"Package.\"\"\"\n" >>

\* f"{name} package"
Description(n) == n \o <<" ", "p", "a", "c", "k", "a", "g", "e">>

---------------------------------------------------------------------------
(* Paths: a path is the sequence of its segments, from the root directory *)

Seg_src            == <<"s","r","c">>
Seg_configs        == <<"c","o","n","f","i","g","s">>
Seg_scripts        == <<"s","c","r","i","p","t","s">>
Seg_tests          == <<"t","e","s","t","s">>
Seg_unit           == <<"u","n","i","t">>
Seg_integration    == <<"i","n","t","e","g","r","a","t","i","o","n">>
Seg_entities       == <<"e","n","t","i","t","i","e","s">>
Seg_services       == <<"s","e","r","v","i","c","e","s">>
Seg_workflows      == <<"w","o","r","k","f","l","o","w","s">>
Seg_infrastructure == <<"i","n","f","r","a","s","t","r","u","c","t","u","r","e">>
Seg_init_py        == <<"_","_","i","n","i","t","_","_",".","p","y">>
Seg_pyproject      == <<"p","y","p","r","o","j","e","c","t",".","t","o","m","l">>
Seg_Makefile       == <<"M","a","k","e","f","i","l","e">>
Seg_gitignore      == <<".","g","i","t","i","g","n","o","r","e">>
Seg_base_py        == <<"b","a","s","e",".","p","y">>
Seg_config_py      == <<"c","o","n","f","i","g",".","p","y">>

\* Path.__truediv__
Join(p, seg) == Append(p, seg)

Parent(p) == SubSeq(p, 1, Len(p) - 1)

\* The proper ancestors of p, the root directory included.
Ancestors(p) == {SubSeq(p, 1, k) : k \in 0..(Len(p) - 1)}

IsPrefix(p, q) == Len(p) <= Len(q) /\ SubSeq(q, 1, Len(p)) = p

\* str(path) of an absolute path
PathStr(p) == Flatten([k \in 1..Len(p) |-> <<"/">> \o p[k]])

---------------------------------------------------------------------------
(* The filesystem *)

Dir == [kind |-> "dir", content |-> <<>>]

File(c) == [kind |-> "file", content |-> c]

\* Path.exists(): a path that cannot be resolved does not exist.
Exists(f, p) == p \in DOMAIN f

\* Path.is_dir()
IsDir(f, p) == p \in DOMAIN f /\ f[p].kind = "dir"

IsFile(f, p) == p \in DOMAIN f /\ f[p].kind = "file"

\* The error of resolving the directory part of p: the first ancestor that is
\* no directory is either missing (ENOENT) or a file (ENOTDIR).
PathErr(f, p) ==
    LET bad == {a \in Ancestors(p) : ~IsDir(f, a)}
    IN  IF bad = {} THEN "OK"
        ELSE LET first == CHOOSE a \in bad : \A b \in bad : Len(a) <= Len(b)
             IN  IF Exists(f, first) THEN "ENOTDIR" ELSE "ENOENT"

\* os.mkdir(p) with `n` directory creations left before the I/O fault strikes.
OsMkdir(f, p, n) ==
    LET e == PathErr(f, p)
    IN  IF e # "OK" THEN [err |-> e, fs |-> f, n |-> n]
        ELSE IF Exists(f, p) THEN [err |-> "EEXIST", fs |-> f, n |-> n]
        ELSE IF n = 0 THEN [err |-> "EIO", fs |-> f, n |-> n]
        ELSE [err |-> "OK", fs |-> (p :> Dir) @@ f, n |-> n - 1]

\* Path.mkdir(parents, exist_ok): os.mkdir; on FileNotFoundError the parent is
\* made by parent.mkdir(parents=True, exist_ok=True) and the directory by
\* mkdir(parents=False, exist_ok); any other OSError is raised unless exist_ok
\* and the path is a directory.
RECURSIVE Mkdir(_, _, _, _, _)
Mkdir(f, p, n, parents, exist_ok) ==
    LET r == OsMkdir(f, p, n)
    IN  IF r.err = "OK" THEN r
        ELSE IF r.err = "ENOENT"
        THEN IF ~parents \/ Len(p) = 0 THEN r
             ELSE LET up == Mkdir(f, Parent(p), n, TRUE, TRUE)
                  IN  IF up.err # "OK" THEN up
                      ELSE Mkdir(up.fs, p, up.n, FALSE, exist_ok)
        ELSE IF ~exist_ok \/ ~IsDir(f, p) THEN r
        ELSE [err |-> "OK", fs |-> f, n |-> n]

\* Variant: a write that leaves a file that is already there as it is.
WriteText_IfAbsent(f, p, c, fault) ==
    LET e == PathErr(f, p)
    IN  IF e # "OK" THEN [err |-> e, fs |-> f]
        ELSE IF IsDir(f, p) THEN [err |-> "EISDIR", fs |-> f]
        ELSE IF fault THEN [err |-> "EIO", fs |-> f]
        ELSE IF Exists(f, p) THEN [err |-> "OK", fs |-> f]
        ELSE [err |-> "OK", fs |-> (p :> File(c)) @@ f]

\* Path.write_text(c): open(p, "w") creates or truncates the file, then writes c.
\* `fault` is an I/O fault of an open that would otherwise succeed.
WriteText(f, p, c, fault) ==
    LET e == PathErr(f, p)
    IN  IF e # "OK" THEN [err |-> e, fs |-> f]
        ELSE IF IsDir(f, p) THEN [err |-> "EISDIR", fs |-> f]
        ELSE IF fault THEN [err |-> "EIO", fs |-> f]
        ELSE [err |-> "OK", fs |-> (p :> File(c)) @@ f]

---------------------------------------------------------------------------
(* create_project: its locals *)

project_dir == Join(output_dir, name)

package_name == Replace(name, "-", "_")

src_dir == Join(Join(project_dir, Seg_src), package_name)

\* Variant: a directory list without the two directories under tests/.
directories_NoTests ==
    << Join(project_dir, Seg_configs),
       Join(project_dir, Seg_scripts),
       Join(src_dir, Seg_entities),
       Join(src_dir, Seg_services),
       Join(src_dir, Seg_workflows),
       Join(src_dir, Seg_infrastructure) >>

directories ==
    << Join(project_dir, Seg_configs),
       Join(project_dir, Seg_scripts),
       Join(Join(project_dir, Seg_tests), Seg_unit),
       Join(Join(project_dir, Seg_tests), Seg_integration),
       Join(src_dir, Seg_entities),
       Join(src_dir, Seg_services),
       Join(src_dir, Seg_workflows),
       Join(src_dir, Seg_infrastructure) >>

\* Variant: directory.mkdir(parents=True)
MkdirDirectory_NoExistOk(f, directory, n) == Mkdir(f, directory, n, TRUE, FALSE)

\* Variant: directory.mkdir(exist_ok=True)
MkdirDirectory_NoParents(f, directory, n) == Mkdir(f, directory, n, FALSE, TRUE)

\* Variant: the directory is emptied before it is made.
MkdirDirectory_Fresh(f, directory, n) ==
    Mkdir([p \in {q \in DOMAIN f : q = directory \/ ~IsPrefix(directory, q)} |-> f[p]],
          directory, n, TRUE, TRUE)

\* directory.mkdir(parents=True, exist_ok=True)
MkdirDirectory(f, directory, n) == Mkdir(f, directory, n, TRUE, TRUE)

init_file(directory) == Join(directory, Seg_init_py)

\* Variant: the marker is written whether or not it is there.
WritesMarker_Always(f, directory) == Contains(PathStr(directory), Seg_src)

\* The condition of the marker write.
WritesMarker(f, directory) ==
    Contains(PathStr(directory), Seg_src) /\ ~Exists(f, init_file(directory))

\* The nine unconditional writes, in order: <<path, text>>.
Writes ==
    << <<Join(project_dir, Seg_pyproject), Format(PYPROJECT_TEMPLATE, "{name}", name)>>,
       <<Join(project_dir, Seg_Makefile), MAKEFILE_TEMPLATE>>,
       <<Join(project_dir, Seg_gitignore), GITIGNORE_TEMPLATE>>,
       <<Join(src_dir, Seg_init_py), Format(INIT_TEMPLATE, "{description}", Description(name))>>,
       <<Join(src_dir, Seg_base_py), BASE_PY_TEMPLATE>>,
       <<Join(src_dir, Seg_config_py), CONFIG_PY_TEMPLATE>>,
       <<Join(Join(project_dir, Seg_tests), Seg_init_py), <<>> >>,
       <<Join(Join(Join(project_dir, Seg_tests), Seg_unit), Seg_init_py), <<>> >>,
       <<Join(Join(Join(project_dir, Seg_tests), Seg_integration), Seg_init_py), <<>> >> >>

\* The first lines of the printed summary.
Summary == << <<"Created project: ">> \o PathStr(project_dir), <<"cd ">> \o name, <<"uv sync">> >>

At(a, i) == [at |-> a, i |-> i]

\* Variant: the OSError is caught and the summary is printed all the same.
Raise_Continue(e) ==
    /\ pc' = At("print", 0)
    /\ err' = e
    /\ faulted' = (e = "EIO")

\* An uncaught OSError ends the invocation.
Raise(e) ==
    /\ pc' = At("failed", pc.i)
    /\ err' = e
    /\ faulted' = (e = "EIO")

---------------------------------------------------------------------------
(* create_project: its steps *)

\* The mkdir of the loop; `n` directories can be created before an I/O fault.
StepMkdir ==
    /\ pc.at = "mkdir"
    /\ LET directory == directories[pc.i]
       IN  \E n \in 0..Len(directory) :
             LET r == MkdirDirectory(fs, directory, n)
             IN  /\ fs' = r.fs
                 /\ made' = made \cup (DOMAIN r.fs \ DOMAIN fs)
                 /\ IF r.err = "OK"
                    THEN /\ pc' = At("init", pc.i)
                         /\ ensured' = ensured \cup Ancestors(directory) \cup {directory}
                         /\ UNCHANGED <<err, faulted>>
                    ELSE /\ Raise(r.err)
                         /\ UNCHANGED ensured
    /\ UNCHANGED <<name, output_dir, call, stdout, fs0, fsFirst>>

\* if "src" in str(directory) and not init_file.exists(): init_file.write_text(...)
StepInit ==
    /\ pc.at = "init"
    /\ LET directory == directories[pc.i]
           next == IF pc.i < Len(directories) THEN At("mkdir", pc.i + 1) ELSE At("write", 1)
       IN  IF WritesMarker(fs, directory)
           THEN \E fault \in BOOLEAN :
                  LET r == WriteText(fs, init_file(directory), PACKAGE_MARKER, fault)
                  IN  /\ fs' = r.fs
                      /\ IF r.err = "OK"
                         THEN pc' = next /\ UNCHANGED <<err, faulted>>
                         ELSE Raise(r.err)
           ELSE /\ pc' = next
                /\ UNCHANGED <<fs, err, faulted>>
    /\ UNCHANGED <<name, output_dir, call, stdout, fs0, fsFirst, ensured, made>>

\* (path).write_text(text), the nine of them
StepWrite ==
    /\ pc.at = "write"
    /\ \E fault \in BOOLEAN :
         LET r == WriteText(fs, Writes[pc.i][1], Writes[pc.i][2], fault)
         IN  /\ fs' = r.fs
             /\ IF r.err = "OK"
                THEN /\ pc' = IF pc.i < Len(Writes) THEN At("write", pc.i + 1) ELSE At("print", 0)
                     /\ UNCHANGED <<err, faulted>>
                ELSE Raise(r.err)
    /\ UNCHANGED <<name, output_dir, call, stdout, fs0, fsFirst, ensured, made>>

\* print(...): the summary, and create_project returns.
StepPrint ==
    /\ pc.at = "print"
    /\ stdout' = stdout \o Summary
    /\ pc' = At("done", 0)
    /\ fsFirst' = IF call = 1 THEN fs ELSE fsFirst
    /\ UNCHANGED <<name, output_dir, fs, call, err, faulted, fs0, ensured, made>>

\* The same create_project(name, output_dir) is called again, right after the
\* first call returned.
CallAgain ==
    /\ pc.at = "done"
    /\ call = 1
    /\ call' = 2
    /\ pc' = At("mkdir", 1)
    /\ fs0' = fs
    /\ ensured' = {}
    /\ made' = {}
    /\ UNCHANGED <<name, output_dir, fs, err, faulted, stdout, fsFirst>>

---------------------------------------------------------------------------
(* The state before the first call *)

Seg_w == <<"w">>

\* The output roots of the model: /w and /src.
OutputRoots == { <<Seg_w>>, <<Seg_src>> }

HandEdited == << "\"\"\"Entities of the domain.\"\"\"\n" >>

Stale == << "[project]\n", "name = \"old\"\n" >>

\* Files that may be there before the first call: <<path, text>>.
Preexisting ==
    { <<init_file(directories[5]), HandEdited>>,
      <<Writes[1][1], Stale>>,
      <<Join(directories[1], <<"k">>), Stale>>,
      <<Join(output_dir, <<"n">>), Stale>> }

\* The filesystem that holds the files of `files`, the directories above them,
\* and the root directory.
Populated(files) ==
    LET paths == {x[1] : x \in files}
        dirs  == {<<>>} \cup UNION {Ancestors(p) : p \in paths}
    IN  [p \in dirs \cup paths |->
            IF p \in paths THEN File((CHOOSE x \in files : x[1] = p)[2]) ELSE Dir]

Init ==
    /\ name \in Names
    /\ output_dir \in OutputRoots
    /\ \/ fs = Populated({})                                   \* no output root
       \/ fs = Populated({<<output_dir, Stale>>})              \* the output root is a file
       \/ \E files \in SUBSET Preexisting :
            fs = (output_dir :> Dir) @@ Populated(files)
    /\ pc = At("mkdir", 1)
    /\ call = 1
    /\ err = "OK"
    /\ faulted = FALSE
    /\ stdout = <<>>
    /\ fs0 = fs
    /\ fsFirst = fs
    /\ ensured = {}
    /\ made = {}

Next ==
    \/ StepMkdir
    \/ StepInit
    \/ StepWrite
    \/ StepPrint
    \/ CallAgain

Spec == Init /\ [][Next]_vars

TypeOK ==
    /\ name \in Names
    /\ output_dir \in OutputRoots
    /\ pc.at \in {"mkdir", "init", "write", "print", "done", "failed"}
    /\ call \in {1, 2}
    /\ \A p \in DOMAIN fs : \A a \in Ancestors(p) : IsDir(fs, a)

---------------------------------------------------------------------------
(* Properties *)

Done == pc.at = "done"

Failed == pc.at = "failed"

\* The paths create_project writes to.
Targets ==
    {init_file(directories[i]) : i \in 1..Len(directories)}
        \cup {Writes[j][1] : j \in 1..Len(Writes)}

AlnumHyphen(n) == \A i \in 1..Len(n) : n[i] \in {"a", "1", "-"}

\* pyproject.toml, Makefile, .gitignore, base.py, config.py
Refreshed == {Writes[j][1] : j \in {1, 2, 3, 5, 6}}

\* C1: for a name of alphanumerics and hyphens and any output root, the call
\* that follows a returned call on the same arguments raises no error of its
\* own (it can only end in an I/O fault), and when it returns, pyproject.toml,
\* Makefile, .gitignore, base.py and config.py hold exactly what they held
\* after the first call.
C1_SecondCallIdempotent ==
    (call = 2 /\ AlnumHyphen(name)) =>
        /\ Failed => faulted
        /\ Done => \A p \in Refreshed :
                      IsFile(fs, p) /\ IsFile(fsFirst, p) /\ fs[p] = fsFirst[p]

C1_Witness ==
    /\ call = 2 /\ Done
    /\ AlnumHyphen(name) /\ Contains(name, <<"-">>)
    /\ \A p \in Refreshed : IsFile(fs, p)

\* C2: for entities, services, workflows and infrastructure under src/<package>,
\* a marker file that was there before the call keeps its content whatever it
\* is, and a call that returns has written the default marker where no file
\* was.
C2_WriteOnceIfAbsent ==
    \A i \in 5..8 :
        LET m == init_file(directories[i])
        IN  /\ IsFile(fs0, m) => (IsFile(fs, m) /\ fs[m] = fs0[m])
            /\ (Done /\ ~Exists(fs0, m)) => (IsFile(fs, m) /\ fs[m].content = PACKAGE_MARKER)

C2_Witness ==
    /\ Done /\ call = 1
    /\ IsFile(fs0, init_file(directories[5]))
    /\ fs0[init_file(directories[5])].content = HandEdited
    /\ fs[init_file(directories[5])].content = HandEdited
    /\ ~Exists(fs0, init_file(directories[6]))
    /\ fs[init_file(directories[6])].content = PACKAGE_MARKER

\* C3: whatever was on the filesystem before, after a call that returned the
\* nine unconditionally written files hold exactly the rendered templates:
\* pyproject.toml contains name = "<name>", src/<package>/__init__.py contains
\* """<name> package""", and the three markers under tests are empty.
C3_Overwritten ==
    Done =>
        /\ \A j \in 1..Len(Writes) :
              IsFile(fs, Writes[j][1]) /\ fs[Writes[j][1]].content = Writes[j][2]
        /\ Contains(fs[Join(project_dir, Seg_pyproject)].content,
                    <<"name = \"">> \o name \o <<"\"">>)
        /\ Contains(fs[Join(src_dir, Seg_init_py)].content,
                    <<"\"\"\"">> \o name \o <<" ", "p", "a", "c", "k", "a", "g", "e">>
                        \o <<"\"\"\"">>)
        /\ \A j \in 7..9 : fs[Writes[j][1]].content = <<>>

\* pyproject.toml held other text before the call, and the marker of tests/unit
\* was written in the loop ("src" is in the output root) before the empty one.
C3_Witness ==
    /\ Done /\ call = 1
    /\ IsFile(fs0, Writes[1][1]) /\ fs0[Writes[1][1]].content = Stale
    /\ fs[Writes[1][1]].content # Stale
    /\ Contains(PathStr(output_dir), Seg_src)
    /\ fs[Writes[8][1]].content = <<>>

\* C4: after a call on a location where the project directory did not exist,
\* configs/ and scripts/ hold nothing, and an __init__.py is found only under
\* tests/ and under src/<package>/.
C4_ConfigsScriptsEmpty ==
    (Done /\ call = 1 /\ ~Exists(fs0, project_dir)) =>
        \A p \in DOMAIN fs :
            /\ ~(p # directories[1] /\ IsPrefix(directories[1], p))
            /\ ~(p # directories[2] /\ IsPrefix(directories[2], p))
            /\ (Len(p) > 0 /\ p[Len(p)] = Seg_init_py) =>
                   \/ IsPrefix(Join(project_dir, Seg_tests), p)
                   \/ IsPrefix(src_dir, p)

\* C5 as stated: a call with an output root that does not exist ends in an
\* error and leaves no project directory under that output root.
C5_MissingRootFails ==
    (call = 1 /\ ~Exists(fs0, output_dir) /\ (Done \/ Failed)) =>
        (Failed /\ ~Exists(fs, project_dir))

\* C5, amended: a call with an output root that does not exist, below an
\* existing directory, raises no error of its own: the first mkdir creates the
\* output root as a parent of <output root>/<name>/configs, and a call that
\* meets no I/O fault returns with every listed directory and every written
\* file under the output root it created.
C5_MissingRootCreated ==
    (call = 1 /\ ~Exists(fs0, output_dir) /\ IsDir(fs0, Parent(output_dir))) =>
        /\ Failed => faulted
        /\ (pc # At("mkdir", 1) /\ ~Failed) => (IsDir(fs, output_dir) /\ output_dir \in made)
        /\ Done => /\ \A i \in 1..Len(directories) : IsDir(fs, directories[i])
                   /\ \A j \in 1..Len(Writes) : IsFile(fs, Writes[j][1])

C5_Witness ==
    /\ call = 1 /\ Done
    /\ ~Exists(fs0, output_dir)
    /\ IsDir(fs, output_dir)
    /\ IsFile(fs, Join(project_dir, Seg_pyproject))

\* C6: the package identifier has the length of the name, an underscore
\* wherever the name has a hyphen and the name's character everywhere else;
\* the project directory is <output_dir>/<name> with the name verbatim and the
\* source package directory is <output_dir>/<name>/src/<package identifier>,
\* which a call that returned has created.
C6_PackageIdentifier ==
    LET expected == [i \in 1..Len(name) |-> IF name[i] = "-" THEN "_" ELSE name[i]]
    IN  /\ Len(package_name) = Len(name)
        /\ \A i \in 1..Len(name) : package_name[i] = expected[i]
        /\ project_dir = output_dir \o <<name>>
        /\ src_dir = output_dir \o <<name, Seg_src, expected>>
        /\ Done => /\ IsDir(fs, output_dir \o <<name>>)
                   /\ IsDir(fs, output_dir \o <<name, Seg_src, expected>>)
                   /\ IsFile(fs, output_dir \o <<name, Seg_src, expected, Seg_base_py>>)

C6_Witness ==
    /\ Done
    /\ Len(name) = 2 /\ name[1] = "-" /\ name[2] = "-"
    /\ IsDir(fs, output_dir \o <<name, Seg_src, <<"_", "_">> >>)

Letters ==
    {"a","b","c","d","e","f","g","h","i","j","k","l","m","n","o","p","q","r","s","t",
     "u","v","w","x","y","z","A","B","C","D","E","F","G","H","I","J","K","L","M","N",
     "O","P","Q","R","S","T","U","V","W","X","Y","Z"}

Digits == {"0","1","2","3","4","5","6","7","8","9"}

\* C7: the package identifier of every name create_project accepts holds only
\* letters, digits and underscores.
C7_IdentifierChars ==
    \A i \in 1..Len(package_name) : package_name[i] \in Letters \cup Digits \cup {"_"}

\* C8: an error ends the invocation at the step that raised it: that step
\* leaves every existing file and directory as it was, and after it nothing is
\* executed, retried, removed or printed.
C8_FailStop ==
    [][ /\ err # "OK" => UNCHANGED <<fs, pc, stdout, call>>
        /\ (err = "OK" /\ err' # "OK") =>
              /\ pc'.at = "failed" /\ pc'.i = pc.i
              /\ \A p \in DOMAIN fs : p \in DOMAIN fs' /\ fs'[p] = fs[p]
              /\ stdout' = stdout
      ]_vars

\* A write failed after the loop and pyproject.toml had been written: the
\* partial tree is there.
C8_Witness ==
    /\ Failed /\ faulted /\ call = 1
    /\ ~Exists(fs0, project_dir)
    /\ IsFile(fs, Writes[1][1]) /\ fs[Writes[1][1]].content = Writes[1][2]
    /\ IsDir(fs, directories[8])
    /\ ~Exists(fs, Writes[2][1])
    /\ stdout = <<>>

\* The path the invocation is about to write, if it is about to write one.
Writing ==
    IF pc.at = "write" THEN {Writes[pc.i][1]}
    ELSE IF pc.at = "init" /\ WritesMarker(fs, directories[pc.i])
         THEN {init_file(directories[pc.i])}
    ELSE {}

\* C9: whenever a file is about to be written, its parent directory exists and
\* has been left existing by an earlier mkdir step of the same invocation (made
\* by it, when the project directory was not there at the start), the project
\* directory, tests/ and src/<package>/ included; so no step fails on a missing
\* directory, and from an output root holding nothing only an I/O fault can
\* end the call early.
C9_ParentBeforeWrite ==
    /\ \A p \in Writing :
          /\ IsDir(fs, Parent(p))
          /\ Parent(p) \in ensured
          /\ ~Exists(fs0, project_dir) => Parent(p) \in made
    /\ err # "ENOENT"
    /\ (call = 1 /\ Failed /\ fs0 = (output_dir :> Dir) @@ Populated({})) => faulted

C9_Witness ==
    /\ pc = At("write", 7) /\ call = 1
    /\ fs0 = (output_dir :> Dir) @@ Populated({})
    /\ Join(project_dir, Seg_tests) \in made
    /\ src_dir \in made
    /\ project_dir \in made

\* C10: create_project removes nothing, turns no file into a directory or a
\* directory into a file, and changes the content of no file but those at its
\* target paths.
C10_Frame ==
    \A p \in DOMAIN fs0 :
        /\ p \in DOMAIN fs
        /\ fs[p].kind = fs0[p].kind
        /\ fs[p] # fs0[p] => p \in Targets

C10_Witness ==
    /\ Done /\ call = 1
    /\ IsFile(fs0, Join(directories[1], <<"k">>))
    /\ IsFile(fs0, Join(output_dir, <<"n">>))
    /\ fs[Join(directories[1], <<"k">>)] = fs0[Join(directories[1], <<"k">>)]
    /\ fs[Join(output_dir, <<"n">>)] = fs0[Join(output_dir, <<"n">>)]
    /\ IsFile(fs0, Writes[1][1]) /\ fs[Writes[1][1]] # fs0[Writes[1][1]]

====
